---- MODULE Spec2Model ----
(***************************************************************************)
(* A model of simple_backtesting_strats.py: the interactive driver loop,   *)
(* the pandas column computations of the two strategies (5-day momentum,   *)
(* 5/20 moving-average crossover) and their summary statistics.            *)
(*                                                                         *)
(* Numbers.  A float is an exact rational <<n, d>> with d > 0 in lowest    *)
(* terms; NaN is <<0, 0>>.  Closing prices are powers of two, so that the  *)
(* natural logarithm of a price ratio is an integer multiple of ln 2: log  *)
(* returns and everything summed from them are kept in units of ln 2, and  *)
(* exp of such a value is a power of two.  A value that is a square root   *)
(* (the standard deviation, the Sharpe ratio) is a record [sgn, sq]: its   *)
(* sign and its square.                                                    *)
(*                                                                         *)
(* Columns.  A pandas column of N rows is a sequence of length N; row i of *)
(* the source (0-based) is position i + 1 here.                            *)
(***************************************************************************)
EXTENDS Integers, Sequences, FiniteSets, TLC

(* ------------------------------ bounds -------------------------------- *)

\* closes offered by the provider are 2^0 .. 2^MaxExp
MaxExp == 2
\* longest constant run that opens a generated price history
MaxRun == 20
\* longest free tail that follows the run
MaxTail == 2
\* symbols the driver loop is followed through
MaxSymbols == 2
\* longest strategy-return series handed directly to the evaluator
MaxEvalLen == 3
\* strategy returns handed directly to the evaluator lie in -MaxEvalAbs..MaxEvalAbs
MaxEvalAbs == 2

(* -------------------------- program constants -------------------------- *)

MOMENTUM_WINDOW == 5
SHORT_WINDOW == 5
LONG_WINDOW == 20
TRADING_DAYS == 252

(* ------------------------------ numbers -------------------------------- *)

Abs(x) == IF x < 0 THEN -x ELSE x

RECURSIVE GCD(_, _)
GCD(a, b) == IF b = 0 THEN a ELSE GCD(b, a % b)

NaN == <<0, 0>>
IsNaN(x) == x[2] = 0

\* the rational n/d (d # 0) in lowest terms with a positive denominator
Rat(n, d) ==
    LET g == GCD(Abs(n), Abs(d))
        s == IF d < 0 THEN -1 ELSE 1
    IN  <<(s * n) \div g, (s * d) \div g>>

Float(k) == <<k, 1>>
Zero == Float(0)

\* float arithmetic: NaN in, NaN out; x / 0 is NaN for x = 0 (inf never arises here)
FAdd(x, y) == IF IsNaN(x) \/ IsNaN(y) THEN NaN
              ELSE Rat(x[1] * y[2] + y[1] * x[2], x[2] * y[2])
FSub(x, y) == IF IsNaN(x) \/ IsNaN(y) THEN NaN
              ELSE Rat(x[1] * y[2] - y[1] * x[2], x[2] * y[2])
FMul(x, y) == IF IsNaN(x) \/ IsNaN(y) THEN NaN
              ELSE Rat(x[1] * y[1], x[2] * y[2])
FDiv(x, y) == IF IsNaN(x) \/ IsNaN(y) \/ y[1] = 0 THEN NaN
              ELSE Rat(x[1] * y[2], x[2] * y[1])
\* x > y on floats: False as soon as either side is NaN
FGt(x, y) == ~IsNaN(x) /\ ~IsNaN(y) /\ x[1] * y[2] > y[1] * x[2]
Sign(x) == IF x[1] > 0 THEN 1 ELSE IF x[1] < 0 THEN -1 ELSE 0

RECURSIVE Pow2(_)
Pow2(k) == IF k = 0 THEN 1 ELSE 2 * Pow2(k - 1)

\* log base 2 of a power of two
RECURSIVE Log2(_)
Log2(c) == IF c = 1 THEN 0 ELSE 1 + Log2(c \div 2)

\* np.log of a positive ratio of powers of two, in units of ln 2
NpLog(x) == IF IsNaN(x) THEN NaN ELSE Float(Log2(x[1]) - Log2(x[2]))

\* np.exp of an integer multiple of ln 2
NpExp(x) == IF IsNaN(x) THEN NaN
            ELSE IF x[1] >= 0 THEN Float(Pow2(x[1])) ELSE Rat(1, Pow2(-x[1]))

\* square roots: [sgn, sq] stands for sgn * sqrt(sq)
SurdNaN == [sgn |-> 0, sq |-> NaN]
IsNaNSurd(v) == IsNaN(v.sq)
IsZeroSurd(v) == ~IsNaN(v.sq) /\ v.sq[1] = 0
NpSqrt(x) == IF IsNaN(x) THEN SurdNaN ELSE [sgn |-> Sign(x), sq |-> x]
\* float / surd * surd
DivMulSurd(m, v, w) ==
    IF IsNaN(m) \/ IsNaNSurd(v) \/ IsNaNSurd(w) \/ IsZeroSurd(v) THEN SurdNaN
    ELSE [sgn |-> Sign(m) * v.sgn * w.sgn,
          sq  |-> FMul(FDiv(FMul(m, m), v.sq), w.sq)]

(* --------------------------- pandas columns ---------------------------- *)

\* Series.shift(n): every value moves n rows down, the first n rows are NaN
Shift(col, n) == [p \in 1..Len(col) |-> IF p <= n THEN NaN ELSE col[p - n]]

\* the float view of a column of integers
AsFloat(col) == [p \in 1..Len(col) |-> Float(col[p])]

\* Series.pct_change(n): col[p] / col[p - n] - 1, NaN in the first n rows
PctChange(col, n) ==
    LET prev == Shift(col, n)
    IN  [p \in 1..Len(col) |-> FSub(FDiv(col[p], prev[p]), Float(1))]

\* np.log(col / col.shift(1))
LogReturn(col) ==
    LET prev == Shift(col, 1)
    IN  [p \in 1..Len(col) |-> NpLog(FDiv(col[p], prev[p]))]

RECURSIVE SumRange(_, _, _)
SumRange(col, lo, hi) ==
    IF lo > hi THEN Zero ELSE FAdd(col[hi], SumRange(col, lo, hi - 1))

\* Series.rolling(n).mean(): the mean of the last n rows, NaN until n rows exist
RollingMean(col, n) ==
    [p \in 1..Len(col) |->
        IF p < n THEN NaN ELSE FDiv(SumRange(col, p - n + 1, p), Float(n))]

\* (a > b).astype(int), row by row
GtAsInt(a, b) == [p \in 1..Len(a) |-> IF FGt(a[p], b[p]) THEN 1 ELSE 0]

\* a * b, row by row
MulCols(a, b) == [p \in 1..Len(a) |-> FMul(a[p], b[p])]

\* Series.dropna(): the rows that hold a value, each with its row label
RECURSIVE DropnaFrom(_, _)
DropnaFrom(col, p) ==
    IF p = 0 THEN <<>>
    ELSE LET rest == DropnaFrom(col, p - 1)
         IN  IF IsNaN(col[p]) THEN rest ELSE Append(rest, [i |-> p, v |-> col[p]])
Dropna(col) == DropnaFrom(col, Len(col))

Values(ser) == [p \in 1..Len(ser) |-> ser[p].v]

\* Series.cumsum()
Cumsum(vals) == [p \in 1..Len(vals) |-> SumRange(vals, 1, p)]

\* Series.mean(): NaN for an empty series
Mean(vals) == FDiv(SumRange(vals, 1, Len(vals)), Float(Len(vals)))

\* Series.std(): sample standard deviation (ddof = 1), NaN below two values
Std(vals) ==
    LET n  == Len(vals)
        m  == Mean(vals)
        sq == [p \in 1..n |-> FMul(FSub(vals[p], m), FSub(vals[p], m))]
    IN  IF n < 2 THEN SurdNaN
        ELSE NpSqrt(FDiv(SumRange(sq, 1, n), Float(n - 1)))

\* Series.cumsum() as plotted: a NaN row stays NaN and adds nothing to the sum
RECURSIVE SumSkipNa(_, _)
SumSkipNa(col, p) ==
    IF p = 0 THEN Zero
    ELSE IF IsNaN(col[p]) THEN SumSkipNa(col, p - 1)
    ELSE FAdd(col[p], SumSkipNa(col, p - 1))
CumsumSkipNa(col) ==
    [p \in 1..Len(col) |-> IF IsNaN(col[p]) THEN NaN ELSE SumSkipNa(col, p)]

ExpCol(col) == [p \in 1..Len(col) |-> NpExp(col[p])]

\* the row labels at which an integer column is 1
RowsWhereOne(col) == {p \in 1..Len(col) : col[p] = 1}

(* ----------------------------- the inputs ------------------------------ *)

Symbols == {"NVDA", "AAPL"}
Answers == {"y", "n", "yes"}

CloseFloats == {Float(Pow2(e)) : e \in 0..MaxExp}
Run(c, k) == [p \in 1..k |-> c]
Tails(n) == UNION {[1..m -> CloseFloats] : m \in 0..n}

\* price histories for the column computations: a constant run, then a free tail
CalcSeries ==
    {Run(c, k) \o t : c \in CloseFloats, k \in 0..MaxRun, t \in Tails(MaxTail)}
        \ {<<>>}

\* price histories for the driver loop: one day, two days, a late rise, a late fall
DriverSeries ==
    { Run(Float(1), 1),
      Run(Float(1), 1) \o <<Float(2)>>,
      Run(Float(1), LONG_WINDOW) \o <<Float(2), Float(4)>>,
      Run(Float(4), LONG_WINDOW) \o <<Float(2), Float(1)>> }

\* strategy-return series handed directly to the evaluator
EvalSeries ==
    UNION {[1..m -> {Float(k) : k \in -MaxEvalAbs..MaxEvalAbs}] : m \in 0..MaxEvalLen}

(* ------------------------------ the state ------------------------------ *)

VARIABLES
    pc,                    \* where the script is
    iter,                  \* how many times the symbol prompt was answered
    SYMBOL,                \* line 22
    data,                  \* line 35: the provider's response
    df,                    \* the DataFrame: column name -> column
    strategy,              \* line 80
    cumulative_return,     \* line 82
    mean_daily,            \* line 85
    vol_daily,             \* line 86
    sharpe,                \* line 87
    strategy_ma,           \* line 107
    cumulative_return_ma,  \* line 109
    mean_daily_ma,         \* line 110
    vol_daily_ma,          \* line 111
    sharpe_ma,             \* line 112
    again,                 \* line 154
    out                    \* what was prompted, printed, charted and raised, in order

momVars == <<strategy, cumulative_return, mean_daily, vol_daily, sharpe>>
maVars == <<strategy_ma, cumulative_return_ma, mean_daily_ma, vol_daily_ma, sharpe_ma>>
vars == <<pc, iter, SYMBOL, data, df, momVars, maVars, again, out>>

Event(k, sym, ev, val) == [k |-> k, sym |-> sym, ev |-> ev, val |-> val]

\* a variant of lines 44-56 that keeps a frame already built instead of rebuilding it
FrameCached(time_series) ==
    IF "close" \in DOMAIN df /\ Len(df["close"]) > 0
    THEN "close" :> df["close"]
    ELSE "close" :> time_series

\* pd.DataFrame.from_dict(...).astype(float).sort_index(): the dict is keyed by
\* date, so the frame's rows are the closes in date order; only "4. close" is read
Frame(time_series) == "close" :> time_series

\* names not yet bound hold placeholders; no step reads a name before binding it
Init ==
    /\ pc = "prompt"
    /\ iter = 0
    /\ SYMBOL = ""
    /\ data = [has |-> FALSE, ts |-> <<>>]
    /\ df = <<>>
    /\ strategy = <<>>
    /\ cumulative_return = NaN
    /\ mean_daily = NaN
    /\ vol_daily = SurdNaN
    /\ sharpe = SurdNaN
    /\ strategy_ma = <<>>
    /\ cumulative_return_ma = NaN
    /\ mean_daily_ma = NaN
    /\ vol_daily_ma = SurdNaN
    /\ sharpe_ma = SurdNaN
    /\ again = ""
    /\ out = <<>>

(* ------------------------------ the steps ------------------------------ *)

\* a variant of lines 38-41 that falls through to the loop control instead of
\* going back to the prompt
FetchInvalidAsks(limit) ==
    /\ pc = "prompt"
    /\ iter < limit
    /\ \E sym \in Symbols :
        /\ SYMBOL' = sym
        /\ out' = out \o <<Event(iter + 1, sym, "prompt", <<>>),
                           Event(iter + 1, sym, "invalid", <<>>)>>
    /\ iter' = iter + 1
    /\ data' = [has |-> FALSE, ts |-> <<>>]
    /\ pc' = "ask"
    /\ UNCHANGED <<df, momVars, maVars, again>>

\* lines 22-41: the response has no "Time Series (Daily)"
FetchInvalid(limit) ==
    /\ pc = "prompt"
    /\ iter < limit
    /\ \E sym \in Symbols :
        /\ SYMBOL' = sym
        /\ out' = out \o <<Event(iter + 1, sym, "prompt", <<>>),
                           Event(iter + 1, sym, "invalid", <<>>)>>
    /\ iter' = iter + 1
    /\ data' = [has |-> FALSE, ts |-> <<>>]
    /\ pc' = "prompt"
    /\ UNCHANGED <<df, momVars, maVars, again>>

\* lines 22-62: the response holds an empty time series
FetchEmpty(limit) ==
    /\ pc = "prompt"
    /\ iter < limit
    /\ \E sym \in Symbols :
        /\ SYMBOL' = sym
        /\ out' = out \o <<Event(iter + 1, sym, "prompt", <<>>),
                           Event(iter + 1, sym, "nodata", <<>>)>>
    /\ iter' = iter + 1
    /\ data' = [has |-> TRUE, ts |-> <<>>]
    /\ df' = Frame(<<>>)
    /\ pc' = "prompt"
    /\ UNCHANGED <<momVars, maVars, again>>

\* lines 22-65: the response holds a time series of at least one day
FetchSeries(family, limit) ==
    /\ pc = "prompt"
    /\ iter < limit
    /\ \E sym \in Symbols, ts \in family :
        /\ SYMBOL' = sym
        /\ out' = Append(out, Event(iter + 1, sym, "prompt", <<>>))
        /\ data' = [has |-> TRUE, ts |-> ts]
        /\ df' = Frame(ts)
    /\ iter' = iter + 1
    /\ pc' = "momentum"
    /\ UNCHANGED <<momVars, maVars, again>>

(* ------------------------- the column formulas ------------------------- *)

\* line 68
SimpleReturn(close) == PctChange(close, 1)

\* a variant of line 71 that forgets the "- 1" of a percentage change
Momentum5Ratio(close) ==
    LET prev == Shift(close, MOMENTUM_WINDOW)
    IN  [p \in 1..Len(close) |-> FDiv(close[p], prev[p])]

\* line 71
Momentum5(close) == PctChange(close, MOMENTUM_WINDOW)

\* a variant of line 74 that compares with >= 0
SignalTiesLong(momentum) ==
    [p \in 1..Len(momentum) |->
        IF ~IsNaN(momentum[p]) /\ ~FGt(Zero, momentum[p]) THEN 1 ELSE 0]

\* line 74: (df["momentum_5"] > 0).astype(int)
Signal(momentum) == GtAsInt(momentum, [p \in 1..Len(momentum) |-> Zero])

\* a variant of lines 77 and 104 that leaves out .shift(1)
LaggedPositionUnshifted(signal) == AsFloat(signal)

\* lines 77 and 104: signal.shift(1) * log_return
LaggedPosition(signal) == Shift(AsFloat(signal), 1)
StrategyReturn(signal, log_return) == MulCols(LaggedPosition(signal), log_return)

\* lines 97 and 98
MaShort(close) == RollingMean(close, SHORT_WINDOW)
MaLong(close) == RollingMean(close, LONG_WINDOW)

\* a variant of line 101 that compares with >=
SignalMaTiesLong(ma_short, ma_long) ==
    [p \in 1..Len(ma_short) |->
        IF ~IsNaN(ma_short[p]) /\ ~IsNaN(ma_long[p]) /\ ~FGt(ma_long[p], ma_short[p])
        THEN 1 ELSE 0]

\* line 101: (df["ma_short"] > df["ma_long"]).astype(int)
SignalMa(ma_short, ma_long) == GtAsInt(ma_short, ma_long)

\* a variant of lines 80 and 107 that also drops the days out of the market
RECURSIVE DropZerosFrom(_, _)
DropZerosFrom(ser, j) ==
    IF j = 0 THEN <<>>
    ELSE LET rest == DropZerosFrom(ser, j - 1)
         IN  IF ser[j].v = Zero THEN rest ELSE Append(rest, ser[j])
FilteredDropsZeros(strategy_return) ==
    DropZerosFrom(Dropna(strategy_return), Len(Dropna(strategy_return)))

\* lines 80 and 107
Filtered(strategy_return) == Dropna(strategy_return)

\* a variant of lines 82 and 109 that forgets the "- 1"
CumulativeReturnGross(ser) ==
    LET grown == ExpCol(Cumsum(Values(ser)))
    IN  grown[Len(grown)]

\* lines 82 and 109: np.exp(strategy.cumsum()).iloc[-1] - 1, for a non-empty series
CumulativeReturn(ser) ==
    LET grown == ExpCol(Cumsum(Values(ser)))
    IN  FSub(grown[Len(grown)], Float(1))

\* lines 85/110 and 86/111
MeanDaily(ser) == Mean(Values(ser))
VolDaily(ser) == Std(Values(ser))

\* the test vol_daily != 0 of lines 87 and 112: true of every number but 0, and of NaN
VolNonZero(vol) == ~IsZeroSurd(vol)

\* a variant of lines 87 and 112 that reports 0 when the volatility is 0
SharpeZeroWhenFlat(mean, vol) ==
    IF VolNonZero(vol) THEN DivMulSurd(mean, vol, NpSqrt(Float(TRADING_DAYS)))
    ELSE NpSqrt(Zero)

\* lines 87 and 112
Sharpe(mean, vol) ==
    IF VolNonZero(vol) THEN DivMulSurd(mean, vol, NpSqrt(Float(TRADING_DAYS)))
    ELSE SurdNaN

(* ------------------------- the strategy steps -------------------------- *)

\* lines 68-80: the momentum strategy's columns and its filtered returns
MomentumSignal ==
    /\ pc = "momentum"
    /\ LET close      == df["close"]
           log_return == LogReturn(close)
           momentum_5 == Momentum5(close)
           signal     == Signal(momentum_5)
           strat_ret  == StrategyReturn(signal, log_return)
       IN  /\ df' = df @@ ("return" :> SimpleReturn(close))
                       @@ ("log_return" :> log_return)
                       @@ ("momentum_5" :> momentum_5)
                       @@ ("signal" :> signal)
                       @@ ("strategy_return" :> strat_ret)
           /\ strategy' = Filtered(strat_ret)
    /\ pc' = "momentum_summary"
    /\ UNCHANGED <<iter, SYMBOL, data, cumulative_return, mean_daily, vol_daily,
                   sharpe, maVars, again, out>>

\* lines 82-91: .iloc[-1] of an empty series raises IndexError, which nothing catches
MomentumSummary ==
    /\ pc = "momentum_summary"
    /\ IF Len(strategy) = 0
       THEN /\ pc' = "crashed"
            /\ out' = Append(out, Event(iter, SYMBOL, "IndexError", <<>>))
            /\ UNCHANGED <<cumulative_return, mean_daily, vol_daily, sharpe>>
       ELSE /\ cumulative_return' = CumulativeReturn(strategy)
            /\ mean_daily' = MeanDaily(strategy)
            /\ vol_daily' = VolDaily(strategy)
            /\ sharpe' = Sharpe(MeanDaily(strategy), VolDaily(strategy))
            /\ out' = Append(out, Event(iter, SYMBOL, "metrics",
                                        <<cumulative_return', sharpe'>>))
            /\ pc' = "crossover"
    /\ UNCHANGED <<iter, SYMBOL, data, df, strategy, maVars, again>>

\* lines 94-107: the crossover strategy's columns and its filtered returns
CrossoverSignal ==
    /\ pc = "crossover"
    /\ LET close     == df["close"]
           ma_short  == MaShort(close)
           ma_long   == MaLong(close)
           signal_ma == SignalMa(ma_short, ma_long)
           strat_ret == StrategyReturn(signal_ma, df["log_return"])
       IN  /\ df' = df @@ ("ma_short" :> ma_short)
                       @@ ("ma_long" :> ma_long)
                       @@ ("signal_ma" :> signal_ma)
                       @@ ("strategy_ma" :> strat_ret)
           /\ strategy_ma' = Filtered(strat_ret)
    /\ pc' = "crossover_summary"
    /\ UNCHANGED <<iter, SYMBOL, data, momVars, cumulative_return_ma, mean_daily_ma,
                   vol_daily_ma, sharpe_ma, again, out>>

\* lines 109-115
CrossoverSummary ==
    /\ pc = "crossover_summary"
    /\ IF Len(strategy_ma) = 0
       THEN /\ pc' = "crashed"
            /\ out' = Append(out, Event(iter, SYMBOL, "IndexError", <<>>))
            /\ UNCHANGED <<cumulative_return_ma, mean_daily_ma, vol_daily_ma, sharpe_ma>>
       ELSE /\ cumulative_return_ma' = CumulativeReturn(strategy_ma)
            /\ mean_daily_ma' = MeanDaily(strategy_ma)
            /\ vol_daily_ma' = VolDaily(strategy_ma)
            /\ sharpe_ma' = Sharpe(MeanDaily(strategy_ma), VolDaily(strategy_ma))
            /\ out' = Append(out, Event(iter, SYMBOL, "metrics_ma",
                                        <<cumulative_return_ma', sharpe_ma'>>))
            /\ pc' = "plot"
    /\ UNCHANGED <<iter, SYMBOL, data, df, momVars, strategy_ma, again>>

\* lines 117-151: the three charts
Plot ==
    /\ pc = "plot"
    /\ out' = out \o
         <<Event(iter, SYMBOL, "chart_price",
                 <<df["close"], df["ma_short"], df["ma_long"],
                   RowsWhereOne(df["signal_ma"])>>),
           Event(iter, SYMBOL, "chart_returns",
                 <<ExpCol(CumsumSkipNa(df["strategy_return"])),
                   ExpCol(CumsumSkipNa(df["strategy_ma"]))>>),
           Event(iter, SYMBOL, "chart_momentum", <<df["momentum_5"]>>)>>
    /\ pc' = "ask"
    /\ UNCHANGED <<iter, SYMBOL, data, df, momVars, maVars, again>>

\* lines 154-155: the answer is "y"
AnalyzeAnother ==
    /\ pc = "ask"
    /\ again' = "y"
    /\ out' = Append(out, Event(iter, SYMBOL, "ask", <<>>))
    /\ pc' = "prompt"
    /\ UNCHANGED <<iter, SYMBOL, data, df, momVars, maVars>>

\* lines 154-157: any other answer
Exit ==
    /\ pc = "ask"
    /\ \E a \in Answers \ {"y"} : again' = a
    /\ out' = out \o <<Event(iter, SYMBOL, "ask", <<>>),
                       Event(iter, SYMBOL, "exiting", <<>>)>>
    /\ pc' = "exited"
    /\ UNCHANGED <<iter, SYMBOL, data, df, momVars, maVars>>

(* -------------------------- the specifications ------------------------- *)

Compute ==
    \/ MomentumSignal
    \/ MomentumSummary
    \/ CrossoverSignal
    \/ CrossoverSummary
    \/ Plot

\* the driver loop, followed through MaxSymbols prompts
Next ==
    \/ FetchInvalid(MaxSymbols)
    \/ FetchEmpty(MaxSymbols)
    \/ FetchSeries(DriverSeries, MaxSymbols)
    \/ Compute
    \/ AnalyzeAnother
    \/ Exit

Spec == Init /\ [][Next]_vars

\* one pass of the loop body over every generated price history
NextCalc ==
    \/ FetchSeries(CalcSeries, 1)
    \/ Compute
    \/ Exit

SpecCalc == Init /\ [][NextCalc]_vars

\* the evaluators of lines 80-91 and 107-115, each applied to a strategy-return
\* series given directly
Labelled(vals) == [p \in 1..Len(vals) |-> [i |-> p, v |-> vals[p]]]

InitEval ==
    /\ iter = 1
    /\ SYMBOL \in Symbols
    /\ data = [has |-> FALSE, ts |-> <<>>]
    /\ df = <<>>
    /\ cumulative_return = NaN
    /\ mean_daily = NaN
    /\ vol_daily = SurdNaN
    /\ sharpe = SurdNaN
    /\ cumulative_return_ma = NaN
    /\ mean_daily_ma = NaN
    /\ vol_daily_ma = SurdNaN
    /\ sharpe_ma = SurdNaN
    /\ again = ""
    /\ out = <<>>
    /\ \E vals \in EvalSeries :
        \/ pc = "momentum_summary" /\ strategy = Labelled(vals) /\ strategy_ma = <<>>
        \/ pc = "crossover_summary" /\ strategy_ma = Labelled(vals) /\ strategy = <<>>

NextEval ==
    \/ MomentumSummary
    \/ CrossoverSummary

SpecEval == InitEval /\ [][NextEval]_vars

(* ------------------------------ the claims ----------------------------- *)

Has(col) == col \in DOMAIN df
Rows == Len(df["close"])
MomentumColumnsDone == Has("strategy_return")
CrossoverColumnsDone == Has("strategy_ma")
Printed(ev) == \E j \in 1..Len(out) : out[j].ev = ev /\ out[j].k = iter
IsConstant(col) == \A p \in 1..Len(col) : col[p] = col[1]

\* the signals recomputed from the first n closes alone
MomentumSignalOf(close, n) == Signal(Momentum5(SubSeq(close, 1, n)))
CrossoverSignalOf(close, n) ==
    SignalMa(MaShort(SubSeq(close, 1, n)), MaLong(SubSeq(close, 1, n)))

\* C1: for both strategies and every row p >= 2 (index >= 1), the strategy return
\* at p is the signal of row p - 1 times the log return of row p, and that signal
\* is the one the closes of rows 1..p-1 alone give: no close of row p or later
\* enters the position applied to row p.
C1_LaggedSignalNoLookAhead ==
    /\ MomentumColumnsDone =>
         \A p \in 2..Rows :
            /\ df["strategy_return"][p]
                 = FMul(Float(df["signal"][p - 1]), df["log_return"][p])
            /\ df["signal"][p - 1] = MomentumSignalOf(df["close"], p - 1)[p - 1]
    /\ CrossoverColumnsDone =>
         \A p \in 2..Rows :
            /\ df["strategy_ma"][p]
                 = FMul(Float(df["signal_ma"][p - 1]), df["log_return"][p])
            /\ df["signal_ma"][p - 1] = CrossoverSignalOf(df["close"], p - 1)[p - 1]

\* C1 witness: both strategies computed; on some row the momentum signal has just
\* dropped from 1 to 0 while the return it is applied to is not 0, and some
\* crossover strategy return is not 0.
C1_Witness ==
    /\ CrossoverColumnsDone
    /\ \E p \in 2..Rows : /\ df["signal"][p - 1] = 1
                          /\ df["signal"][p] = 0
                          /\ df["strategy_return"][p] # Zero
                          /\ ~IsNaN(df["strategy_return"][p])
    /\ \E p \in 2..Rows : ~IsNaN(df["strategy_ma"][p]) /\ df["strategy_ma"][p] # Zero

\* C2 as stated: for every row past the window the momentum signal is 1 exactly
\* when close[p] / close[p - W] - 1 > 0, and inside the window (rows 1..W) the
\* signal is a missing value, distinct from 0.
C2_Original ==
    MomentumColumnsDone =>
        \A p \in 1..Rows :
            IF p > MOMENTUM_WINDOW
            THEN df["signal"][p] =
                   (IF FGt(FSub(FDiv(df["close"][p], df["close"][p - MOMENTUM_WINDOW]),
                                Float(1)), Zero)
                    THEN 1 ELSE 0)
            ELSE df["signal"][p] \notin {0, 1}

\* C2 amended: past the window as stated (momentum exactly 0 gives 0); inside the
\* window the momentum is missing and the signal is 0, not a missing value.
C2_MomentumSignal ==
    MomentumColumnsDone =>
        \A p \in 1..Rows :
            IF p > MOMENTUM_WINDOW
            THEN df["signal"][p] =
                   (IF FGt(FSub(FDiv(df["close"][p], df["close"][p - MOMENTUM_WINDOW]),
                                Float(1)), Zero)
                    THEN 1 ELSE 0)
            ELSE IsNaN(df["momentum_5"][p]) /\ df["signal"][p] = 0

\* C2 witness: a history longer than the window with a row of positive momentum
\* and a row of momentum exactly 0.
C2_Witness ==
    /\ MomentumColumnsDone
    /\ \E p \in (MOMENTUM_WINDOW + 1)..Rows : df["signal"][p] = 1
    /\ \E p \in (MOMENTUM_WINDOW + 1)..Rows :
          df["momentum_5"][p] = Zero /\ df["signal"][p] = 0

\* the mean of the n closes ending at row p, as a fraction sum / n
WindowMeanIs(x, close, p, n) ==
    /\ ~IsNaN(x)
    /\ x[1] * n = x[2] * SumRange(close, p - n + 1, p)[1]

AveragesAsClaimed ==
    \A p \in 1..Rows :
        /\ IF p < SHORT_WINDOW THEN IsNaN(df["ma_short"][p])
           ELSE WindowMeanIs(df["ma_short"][p], df["close"], p, SHORT_WINDOW)
        /\ IF p < LONG_WINDOW THEN IsNaN(df["ma_long"][p])
           ELSE WindowMeanIs(df["ma_long"][p], df["close"], p, LONG_WINDOW)

BothDefined(p) == ~IsNaN(df["ma_short"][p]) /\ ~IsNaN(df["ma_long"][p])
CrossoverBit(p) ==
    IF df["ma_short"][p][1] * df["ma_long"][p][2]
         > df["ma_long"][p][1] * df["ma_short"][p][2]
    THEN 1 ELSE 0

ExampleCloses == <<Float(10), Float(11), Float(12), Float(13), Float(14)>>
ExampleSignal == SignalMa(RollingMean(ExampleCloses, 2), RollingMean(ExampleCloses, 3))

\* C3 as stated: the averages are the window means, missing until the window is
\* full; where both are defined the signal is 1 exactly when short > long; where
\* either is missing the signal is missing; the example's signal is 1 at indices
\* 2, 3, 4 and missing at indices 0 and 1.
C3_Original ==
    CrossoverColumnsDone =>
         /\ AveragesAsClaimed
         /\ \A p \in 1..Rows :
               IF BothDefined(p) THEN df["signal_ma"][p] = CrossoverBit(p)
               ELSE df["signal_ma"][p] \notin {0, 1}
         /\ \A p \in 3..5 : ExampleSignal[p] = 1
         /\ \A p \in 1..2 : ExampleSignal[p] \notin {0, 1}

\* C3 amended: as stated, except that where either average is missing the signal
\* is 0, not missing; in the example the signal is 0 at indices 0 and 1.
C3_CrossoverSignal ==
    CrossoverColumnsDone =>
         /\ AveragesAsClaimed
         /\ \A p \in 1..Rows :
               IF BothDefined(p) THEN df["signal_ma"][p] = CrossoverBit(p)
               ELSE df["signal_ma"][p] = 0
         /\ ExampleSignal = <<0, 0, 1, 1, 1>>

\* C3 witness: a history longer than the long window with a row where short > long
\* and a row where the two averages are equal.
C3_Witness ==
    /\ CrossoverColumnsDone
    /\ \E p \in LONG_WINDOW..Rows : df["signal_ma"][p] = 1
    /\ \E p \in LONG_WINDOW..Rows :
          df["ma_short"][p] = df["ma_long"][p] /\ df["signal_ma"][p] = 0

MomentumSummaryDone == pc \in {"crossover", "crossover_summary", "plot", "ask", "exited"}
MomentumSummaryTried == MomentumSummaryDone \/ pc = "crashed"
CrossoverSummaryDone == pc \in {"plot", "ask", "exited"}
ShortForMomentum == Rows \in {MOMENTUM_WINDOW, MOMENTUM_WINDOW + 1}

\* C4 as stated: a history of exactly W or W + 1 closes makes the momentum
\* evaluation fail, and no cumulative return or Sharpe ratio is produced.
C4_Original ==
    (MomentumColumnsDone /\ MomentumSummaryTried /\ ShortForMomentum) =>
        pc = "crashed" /\ ~Printed("metrics")

\* C4 amended: the evaluation fails (an IndexError, no statistics) exactly when
\* the filtered series is empty, which is the case of a one-day history only; a
\* history of W or W + 1 closes has a non-empty filtered series of zeros and the
\* evaluation produces a cumulative return of 0 and a Sharpe ratio without value.
C4_FailsOnlyOnEmptySeries ==
    (MomentumColumnsDone /\ MomentumSummaryTried) =>
        /\ (pc = "crashed") = (Len(strategy) = 0)
        /\ (Len(strategy) = 0) = (Rows = 1)
        /\ pc = "crashed" =>
              /\ ~Printed("metrics")
              /\ out[Len(out)].ev = "IndexError"
        /\ ShortForMomentum =>
              /\ Printed("metrics")
              /\ \A j \in 1..Len(strategy) : strategy[j].v = Zero
              /\ cumulative_return = Zero
              /\ IsNaNSurd(sharpe)

\* C4 witness: the momentum statistics of a history of W + 1 closes whose only
\* signal of 1 is at the last row have been produced.
C4_Witness ==
    /\ MomentumColumnsDone /\ MomentumSummaryDone
    /\ Rows = MOMENTUM_WINDOW + 1
    /\ df["signal"][Rows] = 1
    /\ Printed("metrics")

AllSame(ser) == \A j \in 1..Len(ser) : ser[j].v = ser[1].v

\* what the claim says of one strategy's mean, volatility and Sharpe ratio
SharpeAsClaimed(ser, mean, vol, ratio) ==
    /\ (Len(ser) >= 2 /\ AllSame(ser)) => IsZeroSurd(vol)
    /\ IsZeroSurd(vol) => ratio = SurdNaN /\ ~IsZeroSurd(ratio)
    /\ IsNaNSurd(vol) => IsNaNSurd(ratio)
    /\ (~IsZeroSurd(vol) /\ ~IsNaNSurd(vol)) =>
          /\ ~IsNaNSurd(ratio)
          /\ ratio.sgn = Sign(mean)
          /\ ratio.sq[1] * vol.sq[1] * mean[2] * mean[2]
               = TRADING_DAYS * mean[1] * mean[1] * vol.sq[2] * ratio.sq[2]

C5_WitnessNumeric ==
    /\ pc = "plot"
    /\ ~IsZeroSurd(vol_daily_ma) /\ ~IsNaNSurd(vol_daily_ma)
    /\ sharpe_ma.sgn = -1

Labels(ser) == {ser[j].i : j \in 1..Len(ser)}

\* the rows at which both the lagged signal and the log return hold a value
PairedRows(signal) ==
    {p \in 1..Rows : ~IsNaN(LaggedPosition(signal)[p]) /\ ~IsNaN(df["log_return"][p])}

\* mean is the arithmetic mean of col over the rows lo..hi
MeanOverRows(mean, col, lo, hi) ==
    /\ ~IsNaN(mean)
    /\ mean[1] * (hi - lo + 1) = mean[2] * SumRange(col, lo, hi)[1]

\* C6 as stated: each strategy's statistics are taken over exactly the rows where
\* lagged signal and log return are both defined, and the warm-up rows are not
\* among them: the momentum series has the indices W+1..N-1 (rows W+2..N) and the
\* crossover series the indices L..N-1 (rows L+1..N).
C6_Original ==
    /\ MomentumColumnsDone =>
          /\ Labels(strategy) = PairedRows(df["signal"])
          /\ Labels(strategy) = (MOMENTUM_WINDOW + 2)..Rows
    /\ CrossoverColumnsDone =>
          /\ Labels(strategy_ma) = PairedRows(df["signal_ma"])
          /\ Labels(strategy_ma) = (LONG_WINDOW + 1)..Rows

\* C6 amended: each strategy's statistics are taken over exactly the rows where
\* lagged signal and log return are both defined, which for both strategies are
\* the indices 1..N-1 (rows 2..N): the signal is 0 in its warm-up window, so the
\* warm-up rows are kept and counted as zero-valued returns.
C6_StatisticsOverAllReturnRows ==
    /\ MomentumColumnsDone =>
          /\ Labels(strategy) = PairedRows(df["signal"])
          /\ Labels(strategy) = 2..Rows
          /\ Len(strategy) = Rows - 1
          /\ \A j \in 1..Len(strategy) :
                /\ strategy[j].v = df["strategy_return"][strategy[j].i]
                /\ strategy[j].i <= MOMENTUM_WINDOW + 1 => strategy[j].v = Zero
          /\ (MomentumSummaryDone /\ Rows >= 2) =>
                MeanOverRows(mean_daily, df["strategy_return"], 2, Rows)
    /\ CrossoverColumnsDone =>
          /\ Labels(strategy_ma) = PairedRows(df["signal_ma"])
          /\ Labels(strategy_ma) = 2..Rows
          /\ Len(strategy_ma) = Rows - 1
          /\ \A j \in 1..Len(strategy_ma) :
                /\ strategy_ma[j].v = df["strategy_ma"][strategy_ma[j].i]
                /\ strategy_ma[j].i <= LONG_WINDOW => strategy_ma[j].v = Zero
          /\ (CrossoverSummaryDone /\ Rows >= 2) =>
                MeanOverRows(mean_daily_ma, df["strategy_ma"], 2, Rows)

\* C6 witness: both strategies summarised over a history past the long window in
\* which each has a nonzero return after its warm-up rows.
C6_Witness ==
    /\ CrossoverSummaryDone
    /\ Rows > LONG_WINDOW + 1
    /\ mean_daily # Zero
    /\ mean_daily_ma # Zero

\* C7: on a history whose close is the same at every row, simple and log return
\* are 0 wherever defined, momentum is 0 wherever defined, both moving averages
\* equal the close wherever defined, neither signal is 1 at any row and every
\* strategy return is 0.
C7_ConstantCloseIsFlat ==
    (Has("close") /\ IsConstant(df["close"])) =>
        /\ MomentumColumnsDone =>
              \A p \in 1..Rows :
                 /\ IsNaN(df["return"][p]) = (p = 1)
                 /\ p > 1 => df["return"][p] = Zero /\ df["log_return"][p] = Zero
                 /\ IsNaN(df["momentum_5"][p]) = (p <= MOMENTUM_WINDOW)
                 /\ p > MOMENTUM_WINDOW => df["momentum_5"][p] = Zero
                 /\ df["signal"][p] # 1
                 /\ p > 1 => df["strategy_return"][p] = Zero
        /\ CrossoverColumnsDone =>
              \A p \in 1..Rows :
                 /\ p >= SHORT_WINDOW => df["ma_short"][p] = df["close"][p]
                 /\ p >= LONG_WINDOW => df["ma_long"][p] = df["close"][p]
                 /\ df["signal_ma"][p] # 1
                 /\ p > 1 => df["strategy_ma"][p] = Zero

\* C7 witness: both strategies computed on a constant history longer than the
\* long window.
C7_Witness ==
    /\ CrossoverColumnsDone
    /\ IsConstant(df["close"])
    /\ Rows > LONG_WINDOW

\* C8 as stated: a history too short for a computation (a single close, for
\* which no return exists) never crashes the run: once its evaluation has been
\* tried the program has not been terminated by an error.
C8_ShortSeriesNeverCrashesRun ==
    (MomentumColumnsDone /\ Rows < 2 /\ MomentumSummaryTried) => pc # "crashed"

\* the place of an event within one pass of the loop body
Rank(ev) ==
    CASE ev = "prompt" -> 0
      [] ev \in {"invalid", "nodata", "metrics"} -> 1
      [] ev = "metrics_ma" -> 2
      [] ev = "chart_price" -> 3
      [] ev = "chart_returns" -> 4
      [] ev = "chart_momentum" -> 5
      [] ev = "ask" -> 6
      [] ev = "exiting" -> 7
      [] OTHER -> 8

HasEvent(k, ev) == \E j \in 1..Len(out) : out[j].k = k /\ out[j].ev = ev
Analysed(k) ==
    \A ev \in {"metrics", "metrics_ma", "chart_price", "chart_returns", "chart_momentum"} :
        HasEvent(k, ev)

\* what the two print steps and the charts show for a freshly loaded history ts
FreshReturns(ts) == StrategyReturn(Signal(Momentum5(ts)), LogReturn(ts))
FreshReturnsMa(ts) == StrategyReturn(SignalMa(MaShort(ts), MaLong(ts)), LogReturn(ts))
FreshMetrics(sr) ==
    LET ser == Filtered(sr)
    IN  <<CumulativeReturn(ser), Sharpe(MeanDaily(ser), VolDaily(ser))>>
FreshValue(ev, ts) ==
    CASE ev = "metrics" -> FreshMetrics(FreshReturns(ts))
      [] ev = "metrics_ma" -> FreshMetrics(FreshReturnsMa(ts))
      [] ev = "chart_price" ->
            <<ts, MaShort(ts), MaLong(ts), RowsWhereOne(SignalMa(MaShort(ts), MaLong(ts)))>>
      [] ev = "chart_returns" ->
            <<ExpCol(CumsumSkipNa(FreshReturns(ts))), ExpCol(CumsumSkipNa(FreshReturnsMa(ts)))>>
      [] ev = "chart_momentum" -> <<Momentum5(ts)>>
      [] OTHER -> <<>>

\* C9: the output is in loop order: everything of symbol k precedes the prompt
\* for symbol k + 1, within a symbol load, metrics of both strategies, charts and
\* question follow one another, a new prompt comes only after the symbol before
\* it was rejected or fully analysed, and everything shown for the current symbol
\* is what that symbol's own freshly loaded history gives.
C9_OneSymbolAtATimeFromFreshData ==
    /\ \A i, j \in 1..Len(out) :
          i < j => \/ out[i].k < out[j].k
                   \/ out[i].k = out[j].k /\ Rank(out[i].ev) < Rank(out[j].ev)
    /\ \A j \in 2..Len(out) :
          out[j].ev = "prompt" =>
             /\ out[j - 1].k = out[j].k - 1
             /\ out[j - 1].ev \in {"invalid", "nodata", "ask"}
             /\ out[j - 1].ev = "ask" => Analysed(out[j - 1].k)
    /\ \A j \in 1..Len(out) :
          out[j].k = iter =>
             /\ out[j].sym = SYMBOL
             /\ out[j].ev \in {"metrics", "metrics_ma", "chart_price",
                               "chart_returns", "chart_momentum"} =>
                   /\ Len(data.ts) >= 2
                   /\ out[j].val = FreshValue(out[j].ev, data.ts)

\* C9 witness: a second symbol has been analysed and charted after a first one
\* whose metrics were different.
C9_Witness ==
    /\ pc = "ask"
    /\ \E i, j \in 1..Len(out) :
          /\ out[i].ev = "metrics_ma" /\ out[j].ev = "metrics_ma"
          /\ out[i].k < out[j].k
          /\ out[i].val # out[j].val

\* C10: a symbol whose response has no daily series, or an empty one, gets nothing
\* computed or shown and no question: the next thing is the symbol prompt again;
\* "Exiting program." comes only after a completed analysis and an answer other
\* than "y".
C10_RejectedSymbolReturnsToPrompt ==
    /\ \A j \in 1..Len(out) :
          out[j].ev \in {"invalid", "nodata"} =>
             /\ \A i \in 1..Len(out) :
                   out[i].k = out[j].k => out[i].ev \in {"prompt", out[j].ev}
             /\ IF j = Len(out) THEN pc = "prompt"
                ELSE out[j + 1].ev = "prompt" /\ out[j + 1].k = out[j].k + 1
             /\ (j = Len(out) /\ out[j].ev = "invalid") => ~data.has
             /\ (j = Len(out) /\ out[j].ev = "nodata") => data.has /\ data.ts = <<>>
    /\ \A j \in 1..Len(out) :
          out[j].ev \in {"metrics", "metrics_ma", "chart_price", "ask"} /\ out[j].k = iter
             => data.has /\ Len(data.ts) > 0
    /\ (pc = "exited") = (\E j \in 1..Len(out) : out[j].ev = "exiting")
    /\ pc = "exited" =>
          /\ again # "y"
          /\ Len(out) >= 2
          /\ out[Len(out)].ev = "exiting" /\ out[Len(out) - 1].ev = "ask"
          /\ Analysed(iter)

\* C10 witness: the program has exited after a rejected symbol and an analysis.
C10_Witness ==
    /\ pc = "exited"
    /\ \E j \in 1..Len(out) : out[j].ev \in {"invalid", "nodata"}

====
